---- MODULE Spec2Model ----
(***************************************************************************)
(* A model of modules.py: the invertible transforms (Log,                  *)
(* ElementwiseAffine, Flip, ConvFlow), the convolution components          *)
(* (ConvNorm, DDSConv, ResBlock1, DSResBlock) and PositionalEncoding.      *)
(*                                                                         *)
(* Numbers.  torch works on floats; the model works on exact numbers of    *)
(* three kinds, so that log and exp are computed and not assumed:          *)
(*   [k |-> "rat", n, d]   the rational n/d (d > 0, lowest terms)          *)
(*   [k |-> "ln",  e]      ln(2^e[1] * 3^e[2] * 5^e[3]),  e # <<0,0,0>>    *)
(*   [k |-> "exp", n, d]   e^(n/d),  n/d # 0                               *)
(* so that a sum of logarithms is the sum of the exponents.                *)
(* "Within floating-point tolerance" is |a - b| < Tol on exact values.     *)
(*                                                                         *)
(* Tensors.  A [batch, channel, time] tensor is a sequence of sequences of *)
(* sequences, x[b][c][t]; every axis has length >= 1.  A [batch] vector is *)
(* a sequence.  Binary operations broadcast as torch does.                 *)
(***************************************************************************)
EXTENDS Integers, Sequences, FiniteSets, TLC

VARIABLES
    obj,     \* the component under evaluation, None before construction
    pc,      \* where its caller stands
    call1,   \* the first call on it: arguments and result
    call2,   \* the inverse call on the first call's output
    frames   \* the callers inside PositionalEncoding.forward, one frame each

vars == <<obj, pc, call1, call2, frames>>

\* Largest number of elements of an input tensor or mask.
MaxElems == 4
\* Largest channel count a component is constructed with.
MaxChannels == 2
\* Largest kernel_size and n_layers a convolution stack is constructed with.
MaxKernel == 3
MaxLayers == 2
\* num_bins of the ConvFlow instances.
NumBins == 2

(***************************************************************************)
(* Exact arithmetic                                                        *)
(***************************************************************************)
RECURSIVE GCD(_, _)
GCD(a, b) == IF b = 0 THEN a ELSE GCD(b, a % b)

Abs(i) == IF i < 0 THEN -i ELSE i

\* The rational n/d in lowest terms with a positive denominator.
R(n, d) ==
    LET s == IF d < 0 THEN -1 ELSE 1
        g == GCD(Abs(n), Abs(d))
    IN  [k |-> "rat", n |-> (s * n) \div g, d |-> (s * d) \div g]

Zero == R(0, 1)
One == R(1, 1)

IsRat(a) == a.k = "rat"

RatLt(a, b) == a.n * b.d < b.n * a.d

\* The primes of the numbers whose logarithm is taken: ln(n/d) is kept as
\* the exponents <<e2, e3, e5>> of n/d = 2^e2 * 3^e3 * 5^e5.
Primes == <<2, 3, 5>>

RECURSIVE Expo(_, _)
Expo(n, p) == IF n % p = 0 THEN 1 + Expo(n \div p, p) ELSE 0

RECURSIVE Pow(_, _)
Pow(p, e) == IF e <= 0 THEN 1 ELSE p * Pow(p, e - 1)

LnOf(e) == IF e = <<0, 0, 0>> THEN Zero ELSE [k |-> "ln", e |-> e]

\* torch.log of a positive rational; ln 1 = 0.
Ln(a) == LnOf([i \in 1..3 |-> Expo(a.n, Primes[i]) - Expo(a.d, Primes[i])])

\* torch.exp
Exp(a) ==
    CASE a.k = "ln" ->
           R(Pow(2, a.e[1]) * Pow(3, a.e[2]) * Pow(5, a.e[3]),
             Pow(2, -a.e[1]) * Pow(3, -a.e[2]) * Pow(5, -a.e[3]))
      [] a = Zero -> One
      [] OTHER -> [k |-> "exp", n |-> a.n, d |-> a.d]

\* unary minus
Neg(a) ==
    CASE a.k = "rat" -> [k |-> "rat", n |-> -a.n, d |-> a.d]
      [] a.k = "ln" -> LnOf([i \in 1..3 |-> -a.e[i]])

\* a + b on rationals; ln p + ln q = ln(pq); 0 is neutral for every kind.
Add(a, b) ==
    CASE a = Zero -> b
      [] b = Zero -> a
      [] a.k = "rat" /\ b.k = "rat" ->
           IF a.d = 1 /\ b.d = 1 THEN [k |-> "rat", n |-> a.n + b.n, d |-> 1]
           ELSE LET l == (a.d \div GCD(a.d, b.d)) * b.d
                IN  R(a.n * (l \div a.d) + b.n * (l \div b.d), l)
      [] a.k = "ln" /\ b.k = "ln" -> LnOf([i \in 1..3 |-> a.e[i] + b.e[i]])

Sub(a, b) == Add(a, Neg(b))

\* a * b on rationals; 0 annihilates and 1 is neutral for every kind.
Mul(a, b) ==
    CASE a = Zero \/ b = Zero -> Zero
      [] a = One -> b
      [] b = One -> a
      [] a.k = "rat" /\ b.k = "rat" ->
           IF a.d = 1 /\ b.d = 1 THEN [k |-> "rat", n |-> a.n * b.n, d |-> 1]
           ELSE R(a.n * b.n, a.d * b.d)

\* 1/a for a rational a # 0
Inv(a) == R(a.d, a.n)

\* torch.clamp_min on a rational
ClampMin(a, lo) == IF RatLt(a, lo) THEN lo ELSE a

\* |a - b| < tol, for rationals; numbers of another kind must be equal.
Close(a, b, tol) ==
    IF IsRat(a) /\ IsRat(b)
    THEN LET e == Sub(a, b) IN RatLt(R(Abs(e.n), e.d), tol)
    ELSE a = b

(***************************************************************************)
(* Tensors and broadcasting                                                *)
(***************************************************************************)
\* What an operation yields when torch raises; errors propagate through the
\* operations below, as an exception leaves the enclosing forward().
Err == <<<<>>>>

Shape(x) == <<Len(x), Len(x[1]), Len(x[1][1])>>

\* The broadcast of two axis lengths, 0 when they do not broadcast.
BDim(a, b) == IF a = b THEN a ELSE IF a = 1 THEN b ELSE IF b = 1 THEN a ELSE 0

BShape(s, u) == <<BDim(s[1], u[1]), BDim(s[2], u[2]), BDim(s[3], u[3])>>

Broadcasts(x, y) == LET s == BShape(Shape(x), Shape(y)) IN s[1] > 0 /\ s[2] > 0 /\ s[3] > 0

\* Element [b][c][t] of the broadcast of x: an axis of length 1 is read at 1.
At(x, b, c, t) ==
    x[IF Len(x) = 1 THEN 1 ELSE b][IF Len(x[1]) = 1 THEN 1 ELSE c][IF Len(x[1][1]) = 1 THEN 1 ELSE t]

\* The one element of a singleton set.  An intermediate result is computed
\* once by binding it, Only({body : v \in {value}}), where Python assigns it
\* to a local variable.
Only(S) == CHOOSE r \in S : TRUE

\* The tensor of shape s with F(b, c, t) at [b][c][t], as sequences.
Tensor(s, F(_, _, _)) ==
    [b \in 1..s[1] |->
        [c \in 1..s[2] |-> [t \in 1..s[3] |-> F(b, c, t)] \o <<>>] \o <<>>] \o <<>>

\* Elementwise binary operation with broadcasting.
Map2(Op(_, _), x, y) ==
    Only({ IF u = Err \/ v = Err THEN Err
           ELSE IF ~Broadcasts(u, v) THEN Err
           ELSE LET F(b, c, t) == Op(At(u, b, c, t), At(v, b, c, t))
                IN  Tensor(BShape(Shape(u), Shape(v)), F)
           : u \in {x}, v \in {y} })

Map1(Op(_), x) ==
    Only({ IF u = Err THEN Err
           ELSE LET F(b, c, t) == Op(u[b][c][t]) IN Tensor(Shape(u), F)
           : u \in {x} })

TMul(x, y) == Map2(Mul, x, y)
TAdd(x, y) == Map2(Add, x, y)
TSub(x, y) == Map2(Sub, x, y)

RECURSIVE SumSeq(_)
SumSeq(s) == IF s = <<>> THEN Zero ELSE Add(s[1], SumSeq(Tail(s)))

\* torch.sum(x, [1, 2]): a [batch] vector
SumCT(x) ==
    Only({ [b \in 1..Len(u) |-> SumSeq([c \in 1..Len(u[b]) |-> SumSeq(u[b][c])])] \o <<>>
           : u \in {x} })

(***************************************************************************)
(* Inputs                                                                  *)
(***************************************************************************)
\* The shapes <<batch, channel, time>> of at most n elements.
Shapes(n) == {s \in (1..n) \X (1..n) \X (1..n) : s[1] * s[2] * s[3] <= n}

TensorsOf(s, V) == [1..s[1] -> [1..s[2] -> [1..s[3] -> V]]]

Tensors(V) == UNION {TensorsOf(s, V) : s \in Shapes(MaxElems)}

\* {0,1} masks of shape [batch, 1, time]
Masks == UNION {TensorsOf(s, {Zero, One}) : s \in {u \in Shapes(MaxElems) : u[2] = 1}}

AllOnes(m) == \A b \in 1..Len(m) : \A t \in 1..Len(m[b][1]) : m[b][1][t] = One

\* The masks a caller passes with x: every {0,1} mask whose shape broadcasts
\* with x, and masks of the other shapes filled with ones.
MasksFor(x) == {m \in Masks : Broadcasts(x, m) \/ AllOnes(m)}

\* Element values the callers pass.  Log is given a negative value and 0,
\* which it clamps, and a positive value; ConvFlow a value inside the
\* spline's interval and one in its tail; the others a negative and a
\* positive value.
Values(cls) ==
    CASE cls = "Log" -> {R(-1, 1), R(0, 1), R(2, 1)}
      [] cls = "ConvFlow" -> {R(-1, 1), R(6, 1)}
      [] OTHER -> {R(-1, 1), R(2, 1)}

\* The result of a call: ok = FALSE when it raised, at = the statement that raised.
Raise(where) == [ok |-> FALSE, at |-> where, y |-> <<>>, logdet |-> <<>>]
Return(y, logdet) == [ok |-> TRUE, at |-> "return", y |-> y, logdet |-> logdet]

\* The inverse direction returns the tensor alone.
NoLogdet == <<>>

\* x_mask=None, g=None
None == <<>>

(***************************************************************************)
(* Log                                                                     *)
(***************************************************************************)
Eps == R(1, 100000)

LogClamp(a) == Ln(ClampMin(a, Eps))

Log_forward(x, x_mask, reverse) ==
    IF ~reverse
    THEN Only({ IF y = Err THEN Raise("broadcast") ELSE Return(y, SumCT(Map1(Neg, y)))
                : y \in {TMul(Map1(LogClamp, x), x_mask)} })
    ELSE Only({ IF y = Err THEN Raise("broadcast") ELSE Return(y, NoLogdet)
                : y \in {TMul(Map1(Exp, x), x_mask)} })

(***************************************************************************)
(* ElementwiseAffine                                                       *)
(***************************************************************************)
\* A [channels, 1] parameter, read as a [1, channels, 1] tensor.
Param(channels, F(_)) == <<[c \in 1..channels |-> <<F(c)>>]>>

\* Parameter values.  "init" is what __init__ leaves; "trained" stands for
\* learned weights.
ParamSets == {"init", "trained"}

\* m = 0 from __init__; trained, m[c] = c.
AffineM(ps, c) == IF ps = "init" THEN Zero ELSE R(c, 1)

\* logs = 0 from __init__; trained, ln 2 on odd channels and ln(1/3) on even.
AffineLogs(ps, c) ==
    IF ps = "init" THEN Zero ELSE IF c % 2 = 1 THEN Ln(R(2, 1)) ELSE Ln(R(1, 3))

ElementwiseAffine_init(channels, ps) ==
    LET M(c) == AffineM(ps, c)
        L(c) == AffineLogs(ps, c)
    IN  [cls |-> "ElementwiseAffine", channels |-> channels,
         m |-> Param(channels, M), logs |-> Param(channels, L)]

\* Variant: the logdet summand with the sign Log.forward uses for its own.
AffineLogdetTerms_negated(logs, x_mask) == TMul(Map1(Neg, logs), x_mask)

\* self.logs * x_mask, the summand of the forward logdet
AffineLogdetTerms(logs, x_mask) == TMul(logs, x_mask)

\* Variant: the inverse direction scaling by exp(logs) like the forward one.
AffineInverseScale_sameSign(logs) == Map1(Exp, logs)

\* torch.exp(-self.logs), the scale of the inverse direction
AffineInverseScale(logs) == Map1(Exp, Map1(Neg, logs))

ElementwiseAffine_forward(self, x, x_mask, reverse) ==
    IF ~reverse
    THEN Only({ IF y = Err \/ logdet = Err THEN Raise("broadcast")
                ELSE Return(y, SumCT(logdet))
                : y \in {TMul(TAdd(self.m, TMul(Map1(Exp, self.logs), x)), x_mask)},
                  logdet \in {AffineLogdetTerms(self.logs, x_mask)} })
    ELSE Only({ IF y = Err THEN Raise("broadcast") ELSE Return(y, NoLogdet)
                : y \in {TMul(TMul(TSub(x, self.m), AffineInverseScale(self.logs)), x_mask)} })

(***************************************************************************)
(* Flip                                                                    *)
(***************************************************************************)
\* Variant: the channels rotated by one place instead of reversed.
FlipChannels_rolled(x) ==
    [b \in 1..Len(x) |-> [c \in 1..Len(x[b]) |-> x[b][(c % Len(x[b])) + 1]] \o <<>>] \o <<>>

\* torch.flip(x, [1])
FlipChannels(x) ==
    [b \in 1..Len(x) |-> [c \in 1..Len(x[b]) |-> x[b][Len(x[b]) + 1 - c]] \o <<>>] \o <<>>

\* torch.zeros(n)
Zeros(n) == [b \in 1..n |-> Zero]

Flip_forward(x, x_mask, reverse) ==
    LET y == FlipChannels(x)
    IN  IF ~reverse THEN Return(y, Zeros(Len(y))) ELSE Return(y, NoLogdet)

(***************************************************************************)
(* Convolution and normalisation primitives                                *)
(***************************************************************************)
\* commons.get_padding(kernel_size, dilation) = int((kernel_size*dilation - dilation)/2)
get_padding(kernel_size, dilation) == (kernel_size * dilation - dilation) \div 2

\* Weights.  "init" stands for the weights a component starts with, "trained"
\* for learned ones; o = output channel, c = input channel, j = kernel tap.
\* "zero" is a layer whose weight and bias were zeroed.
ConvWeight(ps, o, c, j) ==
    CASE ps = "zero" -> Zero
      [] ps = "init" -> One
      [] OTHER -> IF (o + c + j) % 3 = 0 THEN One ELSE R(-1, 1)

ConvBias(ps, o) == IF ps = "trained" THEN R(o % 2, 1) ELSE Zero

\* nn.LayerNorm starts with weight 1 and bias 0.
NormWeight(ps, c) == One
NormBias(ps, c) == IF ps = "init" THEN Zero ELSE R(c % 2, 1)

\* nn.Conv1d(in_channels, out_channels, kernel_size, dilation=, padding=, groups=)
Conv1d(in_channels, out_channels, kernel_size, dilation, padding, depthwise, ps) ==
    [in_channels |-> in_channels, out_channels |-> out_channels,
     kernel_size |-> kernel_size, dilation |-> dilation, padding |-> padding,
     depthwise |-> depthwise, ps |-> ps]

\* The time length of a stride-1 convolution's output.
ConvOutLen(conv, T) == T + 2 * conv.padding - conv.dilation * (conv.kernel_size - 1)

\* x[b][c][i] of the zero-padded input
Padded(x, b, c, i) == IF i \in 1..Len(x[b][c]) THEN x[b][c][i] ELSE Zero

Conv1d_apply(conv, x) ==
    IF x = Err THEN Err
    ELSE IF Len(x[1]) # conv.in_channels THEN Err
    ELSE IF ConvOutLen(conv, Len(x[1][1])) < 1 THEN Err
    ELSE LET Tap(b, o, c, t, j) ==
                 Mul(ConvWeight(conv.ps, o, c, j),
                     Padded(x, b, c, t + (j - 1) * conv.dilation - conv.padding))
             In(b, o, c, t) ==
                 IF conv.depthwise /\ c # o THEN Zero
                 ELSE SumSeq([j \in 1..conv.kernel_size |-> Tap(b, o, c, t, j)])
             F(b, o, t) ==
                 Add(ConvBias(conv.ps, o),
                     SumSeq([c \in 1..conv.in_channels |-> In(b, o, c, t)]))
         IN  Tensor(<<Len(x), conv.out_channels, ConvOutLen(conv, Len(x[1][1]))>>, F)

\* nn.Conv1d.forward: a tensor, or Err when torch raises
Conv1d_forward(conv, x) == Only({Conv1d_apply(conv, u) : u \in {x}})

\* The direction of a deviation: -1, 0 or 1
Sign(a) == IF RatLt(a, Zero) THEN R(-1, 1) ELSE IF RatLt(Zero, a) THEN One ELSE Zero

\* LayerNorm.forward: normalise over the channel axis at each (batch, time).
\* The deviation from the mean is replaced by its direction instead of being
\* divided by sqrt(var + eps), which is irrational; both leave a constant
\* position at 0, are unchanged by a positive scaling of the deviations, and
\* agree on two channels up to eps.
LayerNorm_scaled(ps, dev) ==
    [c \in 1..Len(dev) |->
        Add(NormBias(ps, c), Mul(NormWeight(ps, c), Sign(dev[c])))] \o <<>>

\* The channel values v of one (batch, time) position, normalised.
LayerNorm_position(ps, v) ==
    Only({ LayerNorm_scaled(ps, [c \in 1..Len(v) |-> Sub(v[c], mean)] \o <<>>)
           : mean \in {Mul(SumSeq(v), R(1, Len(v)))} })

LayerNorm_apply(channels, ps, x) ==
    IF x = Err THEN Err
    ELSE IF Len(x[1]) # channels THEN Err
    ELSE Only({ LET F(b, c, t) == n[b][t][c] IN Tensor(Shape(x), F)
                : n \in {[b \in 1..Len(x) |->
                            [t \in 1..Len(x[1][1]) |->
                                LayerNorm_position(ps, [c \in 1..channels |-> x[b][c][t]] \o <<>>)
                            ] \o <<>>] \o <<>>} })

LayerNorm_forward(channels, ps, x) == Only({LayerNorm_apply(channels, ps, u) : u \in {x}})

\* F.gelu(y) = y * Phi(y), modelled by its limits: y for y >= 0, 0 below.
Gelu(a) == IF RatLt(a, Zero) THEN Zero ELSE a

\* F.leaky_relu(x, LRELU_SLOPE)
LRELU_SLOPE == R(1, 10)
LeakyRelu(a) == IF RatLt(a, Zero) THEN Mul(a, LRELU_SLOPE) ELSE a

\* x * x_mask, skipped when x_mask is None
MaskIfGiven(x, x_mask) == IF x_mask = None THEN x ELSE TMul(x, x_mask)

(***************************************************************************)
(* DDSConv                                                                 *)
(***************************************************************************)
\* Variant: the dilation doubling from layer to layer, 2 ** i.
Dilation_doubling(kernel_size, i) == Pow(2, i)

\* dilation of layer i (0-based): kernel_size ** i
Dilation(kernel_size, i) == Pow(kernel_size, i)

DDSConv_init(channels, kernel_size, n_layers, ps) ==
    [cls |-> "DDSConv", channels |-> channels, kernel_size |-> kernel_size,
     n_layers |-> n_layers, ps |-> ps,
     convs_sep |-> [i \in 1..n_layers |->
         Conv1d(channels, channels, kernel_size, Dilation(kernel_size, i - 1),
                get_padding(kernel_size, Dilation(kernel_size, i - 1)), TRUE, ps)],
     convs_1x1 |-> [i \in 1..n_layers |-> Conv1d(channels, channels, 1, 1, 0, FALSE, ps)]]

\* One pass of the loop body of DDSConv.forward, layer i (1-based).
DDSConv_branch(self, xm, i) ==
    LET y1 == Map1(Gelu, LayerNorm_forward(self.channels, self.ps,
                                           Conv1d_forward(self.convs_sep[i], xm)))
    IN  Map1(Gelu, LayerNorm_forward(self.channels, self.ps,
                                     Conv1d_forward(self.convs_1x1[i], y1)))

DDSConv_layer(self, x, x_mask, i) ==
    Only({ MaskIfGiven(TAdd(xm, DDSConv_branch(self, xm, i)), x_mask)
           : xm \in {MaskIfGiven(x, x_mask)} })

\* The loop of DDSConv.forward from layer i on.
RECURSIVE DDSConv_layers(_, _, _, _)
DDSConv_layers(self, x, x_mask, i) ==
    IF i > self.n_layers THEN x
    ELSE Only({ DDSConv_layers(self, y, x_mask, i + 1)
                : y \in {DDSConv_layer(self, x, x_mask, i)} })

\* DDSConv.forward: a tensor, or Err when a statement raises.
DDSConv_forward(self, x, x_mask, g) ==
    DDSConv_layers(self, IF g = None THEN x ELSE TAdd(x, g), x_mask, 1)

(***************************************************************************)
(* DSResBlock, ResBlock1, ConvNorm                                         *)
(***************************************************************************)
DSResBlock_init(channels, kernel_size, ps) ==
    [cls |-> "DSResBlock", dds_conv |-> DDSConv_init(channels, kernel_size, 3, ps)]

DSResBlock_forward(self, x, x_mask) == DDSConv_forward(self.dds_conv, x, None, None)

ResBlock1_init(channels, kernel_size, dilation, ps) ==
    [cls |-> "ResBlock1",
     convs1 |-> [i \in 1..3 |->
         Conv1d(channels, channels, kernel_size, dilation[i],
                get_padding(kernel_size, dilation[i]), FALSE, ps)],
     convs2 |-> [i \in 1..3 |->
         Conv1d(channels, channels, kernel_size, 1, get_padding(kernel_size, 1), FALSE, ps)]]

ResBlock1_branch(self, x, x_mask, i) ==
    LET xt == Conv1d_forward(self.convs1[i], MaskIfGiven(Map1(LeakyRelu, x), x_mask))
    IN  Conv1d_forward(self.convs2[i], MaskIfGiven(Map1(LeakyRelu, xt), x_mask))

ResBlock1_step(self, x, x_mask, i) ==
    Only({ TAdd(ResBlock1_branch(self, u, x_mask, i), u) : u \in {x} })

RECURSIVE ResBlock1_steps(_, _, _, _)
ResBlock1_steps(self, x, x_mask, i) ==
    IF i > 3 THEN x
    ELSE ResBlock1_steps(self, ResBlock1_step(self, x, x_mask, i), x_mask, i + 1)

ResBlock1_forward(self, x, x_mask) ==
    MaskIfGiven(ResBlock1_steps(self, x, x_mask, 1), x_mask)

\* ConvNorm.__init__ with padding=None: the assertion, then the padding.
\* A failed assertion leaves no object.
Failed == [cls |-> "Failed"]

ConvNorm_init(in_channels, out_channels, kernel_size, dilation, transpose, ps) ==
    IF kernel_size % 2 # 1 THEN Failed
    ELSE [cls |-> "ConvNorm", transpose |-> transpose,
          conv |-> Conv1d(in_channels, out_channels, kernel_size, dilation,
                          (dilation * (kernel_size - 1)) \div 2, FALSE, ps)]

\* x.transpose(1, 2)
Transpose12(x) ==
    IF x = Err THEN Err
    ELSE LET F(b, t, c) == x[b][c][t]
         IN  Tensor(<<Len(x), Len(x[1][1]), Len(x[1])>>, F)

ConvNorm_forward(self, x) ==
    IF self.transpose
    THEN Only({Transpose12(y) : y \in {Conv1d_forward(self.conv, Transpose12(x))}})
    ELSE Conv1d_forward(self.conv, x)

(***************************************************************************)
(* The spline: transforms.piecewise_rational_quadratic_transform           *)
(***************************************************************************)
\* A monotone increasing bijection of the reals, the identity outside
\* [-tail_bound, tail_bound] and, inside, increasing from bin to bin between
\* knots placed by the unnormalized widths and heights.  The bins are linear
\* here and a bin of largest parameter gets twice the share of the others;
\* the derivative parameters are not read.
BinWeight(u, j) == IF \A l \in 1..Len(u) : ~RatLt(u[j], u[l]) THEN 2 ELSE 1

RECURSIVE BinTotal(_, _)
BinTotal(u, j) == IF j = 0 THEN 0 ELSE BinWeight(u, j) + BinTotal(u, j - 1)

BinShare(u, i) == R(BinWeight(u, i), BinTotal(u, Len(u)))

\* Knot k (0-based, 0..K) of an axis: -tail_bound + 2 * tail_bound * cumulative share.
RECURSIVE Knot(_, _, _)
Knot(u, k, tail_bound) ==
    IF k = 0 THEN Neg(tail_bound)
    ELSE Add(Knot(u, k - 1, tail_bound),
             Mul(Mul(R(2, 1), tail_bound), BinShare(u, k)))

\* The first bin (1-based) whose right knot is not below a.
RECURSIVE BinOf(_, _, _, _)
BinOf(u, a, i, tail_bound) ==
    IF i = Len(u) \/ ~RatLt(Knot(u, i, tail_bound), a) THEN i
    ELSE BinOf(u, a, i + 1, tail_bound)

\* One element: <<output, logabsdet>>.
SplinePoint(a, uw, uh, inverse, tail_bound) ==
    IF RatLt(a, Neg(tail_bound)) \/ RatLt(tail_bound, a) THEN <<a, Zero>>
    ELSE LET from == IF inverse THEN uh ELSE uw
             to == IF inverse THEN uw ELSE uh
             i == BinOf(from, a, 1, tail_bound)
             slope == Mul(BinShare(to, i), Inv(BinShare(from, i)))
         IN  <<Add(Knot(to, i - 1, tail_bound),
                   Mul(Sub(a, Knot(from, i - 1, tail_bound)), slope)),
               Ln(slope)>>

(***************************************************************************)
(* ConvFlow                                                                *)
(***************************************************************************)
\* tail_bound=5.0
TailBound == R(5, 1)

\* math.sqrt of a perfect square
Sqrt(n) == CHOOSE r \in 1..n : r * r = n

ConvFlow_init(in_channels, filter_channels, kernel_size, n_layers, num_bins, tail_bound, ps) ==
    LET half_channels == in_channels \div 2
    IN  [cls |-> "ConvFlow", in_channels |-> in_channels,
         filter_channels |-> filter_channels, kernel_size |-> kernel_size,
         n_layers |-> n_layers, num_bins |-> num_bins, tail_bound |-> tail_bound,
         half_channels |-> half_channels,
         pre |-> Conv1d(half_channels, filter_channels, 1, 1, 0, FALSE, ps),
         convs |-> DDSConv_init(filter_channels, kernel_size, n_layers, ps),
         proj |-> Conv1d(filter_channels, half_channels * (num_bins * 3 - 1), 1, 1, 0, FALSE,
                         IF ps = "init" THEN "zero" ELSE ps)]

Last(s) == s[Len(s)]

\* Channels lo..hi of x
Channels(x, lo, hi) ==
    [b \in 1..Len(x) |-> [c \in 1..(hi - lo + 1) |-> x[b][lo + c - 1]] \o <<>>] \o <<>>

\* Variant: the two halves concatenated in the other order.
Cat_swapped(x0, x1) == [b \in 1..Len(x0) |-> x1[b] \o x0[b]] \o <<>>

\* torch.cat([x0, x1], 1)
Cat(x0, x1) == [b \in 1..Len(x0) |-> x0[b] \o x1[b]] \o <<>>

\* h = self.proj(self.convs(self.pre(x0), x_mask, g=g)) * x_mask
ConvFlow_h(self, x0, x_mask, g) ==
    TMul(Conv1d_forward(self.proj,
             DDSConv_forward(self.convs, Conv1d_forward(self.pre, x0), x_mask, g)),
         x_mask)

\* The statements of ConvFlow.forward after h is computed.
ConvFlow_couple(self, x0, x1, h, x_mask, reverse) ==
    LET K == self.num_bins
        P == 3 * K - 1
    IN  IF h = Err THEN Raise("forward")
        \* h.reshape(b, c, -1, t) has a last axis of 3K-1 only if the mask did
        \* not broadcast h to a larger shape; the spline rejects other sizes.
        ELSE IF Shape(h) # <<Len(x0), self.half_channels * P, Len(x0[1][1])>>
        THEN Raise("spline")
        ELSE
        LET H4(b, c, t, p) == h[b][(c - 1) * P + p][t]
            scale == R(1, Sqrt(self.filter_channels))
            uw(b, c, t) == [p \in 1..K |-> Mul(H4(b, c, t, p), scale)] \o <<>>
            uh(b, c, t) == [p \in 1..K |-> Mul(H4(b, c, t, K + p), scale)] \o <<>>
            S(b, c, t) ==
                SplinePoint(x1[b][c][t], uw(b, c, t), uh(b, c, t), reverse, self.tail_bound)
        IN  Only({ IF ~reverse
                   THEN Return(TMul(Cat(x0, Map1(Head, s)), x_mask),
                               SumCT(TMul(Map1(Last, s), x_mask)))
                   ELSE Return(TMul(Cat(x0, Map1(Head, s)), x_mask), NoLogdet)
                   : s \in {Tensor(Shape(x1), S)} })

\* Variant: slicing x[:, :half] and x[:, half:2*half], which drops surplus
\* channels without an error.
SplitRaises_sliced(half_channels, x) == Len(x[1]) < 2 * half_channels

\* torch.split(x, [self.half_channels]*2, 1) raises unless the sizes sum to
\* x's channel count.
SplitRaises(half_channels, x) == Len(x[1]) # 2 * half_channels

ConvFlow_forward(self, x, x_mask, g, reverse) ==
    IF SplitRaises(self.half_channels, x) THEN Raise("split")
    ELSE Only({ Only({ ConvFlow_couple(self, x0, x1, h, x_mask, reverse)
                       : h \in {ConvFlow_h(self, x0, x_mask, g)} })
                : x0 \in {Channels(x, 1, self.half_channels)},
                  x1 \in {Channels(x, self.half_channels + 1, 2 * self.half_channels)} })

(***************************************************************************)
(* The callers                                                             *)
(***************************************************************************)
NoCall ==
    [reverse |-> FALSE, x |-> <<>>, x_mask |-> None, g |-> None, out |-> Raise("none")]

Called(reverse, x, x_mask, g, out) ==
    [reverse |-> reverse, x |-> x, x_mask |-> x_mask, g |-> g, out |-> out]

\* A forward() that returns a tensor, or raises.
Result(y) == IF y = Err THEN Raise("forward") ELSE Return(y, NoLogdet)

\* No component is constructed yet.
NoObject == [cls |-> "None"]

Init == obj = NoObject /\ pc = "start" /\ call1 = NoCall /\ call2 = NoCall /\ frames = <<>>

\* The tensors passed to a component built for `channels` channels: that
\* many channels, or one more.
InputsFor(channels) ==
    {x \in Tensors(Values("conv")) : Len(x[1]) \in {channels, channels + 1}}

\* The masks passed with x where a mask is optional: none, a {0,1} mask of
\* x's [batch, 1, time] shape, or ones of another shape.
OptMasksFor(x) ==
    {None} \cup {m \in Masks : AllOnes(m) \/ (Len(m) = Len(x) /\ Len(m[1][1]) = Len(x[1][1]))}

\* A conditioning tensor g of shape [1, channels, 1]
Cond(channels) == <<[c \in 1..channels |-> <<One>>]>>

(***************************************************************************)
(* Callers of the transforms: construct one, call it forward, then call    *)
(* it in inverse mode on the forward output with the same mask.            *)
(***************************************************************************)
NewLog ==
    /\ pc = "start"
    /\ obj' = [cls |-> "Log"]
    /\ pc' = "new"
    /\ UNCHANGED <<call1, call2, frames>>

\* Log.forward(x, x_mask)
LogForward ==
    /\ pc = "new" /\ obj.cls = "Log"
    /\ \E x \in Tensors(Values("Log")) : \E x_mask \in MasksFor(x), g \in {None} :
         call1' = Called(FALSE, x, x_mask, g, Log_forward(x, x_mask, FALSE))
    /\ pc' = "forward"
    /\ UNCHANGED <<obj, call2, frames>>

\* Log.forward(y, x_mask, reverse=True) on the output y of the forward call
LogInverse ==
    /\ pc = "forward" /\ obj.cls = "Log" /\ call1.out.ok
    /\ call2' = Called(TRUE, call1.out.y, call1.x_mask, call1.g, Log_forward(call1.out.y, call1.x_mask, TRUE))
    /\ pc' = "inverted"
    /\ UNCHANGED <<obj, call1, frames>>

NewElementwiseAffine ==
    /\ pc = "start"
    /\ \E channels \in 1..MaxChannels, ps \in ParamSets :
         obj' = ElementwiseAffine_init(channels, ps)
    /\ pc' = "new"
    /\ UNCHANGED <<call1, call2, frames>>

\* ElementwiseAffine.forward(x, x_mask)
ElementwiseAffineForward ==
    /\ pc = "new" /\ obj.cls = "ElementwiseAffine"
    /\ \E x \in Tensors(Values("ElementwiseAffine")) : \E x_mask \in MasksFor(x), g \in {None} :
         call1' = Called(FALSE, x, x_mask, g, ElementwiseAffine_forward(obj, x, x_mask, FALSE))
    /\ pc' = "forward"
    /\ UNCHANGED <<obj, call2, frames>>

\* ElementwiseAffine.forward(y, x_mask, reverse=True) on the output y of the forward call
ElementwiseAffineInverse ==
    /\ pc = "forward" /\ obj.cls = "ElementwiseAffine" /\ call1.out.ok
    /\ call2' = Called(TRUE, call1.out.y, call1.x_mask, call1.g, ElementwiseAffine_forward(obj, call1.out.y, call1.x_mask, TRUE))
    /\ pc' = "inverted"
    /\ UNCHANGED <<obj, call1, frames>>

NewFlip ==
    /\ pc = "start"
    /\ obj' = [cls |-> "Flip"]
    /\ pc' = "new"
    /\ UNCHANGED <<call1, call2, frames>>

\* Flip.forward(x, x_mask)
FlipForward ==
    /\ pc = "new" /\ obj.cls = "Flip"
    /\ \E x \in Tensors(Values("Flip")) : \E x_mask \in MasksFor(x), g \in {None} :
         call1' = Called(FALSE, x, x_mask, g, Flip_forward(x, x_mask, FALSE))
    /\ pc' = "forward"
    /\ UNCHANGED <<obj, call2, frames>>

\* Flip.forward(y, x_mask, reverse=True) on the output y of the forward call
FlipInverse ==
    /\ pc = "forward" /\ obj.cls = "Flip" /\ call1.out.ok
    /\ call2' = Called(TRUE, call1.out.y, call1.x_mask, call1.g, Flip_forward(call1.out.y, call1.x_mask, TRUE))
    /\ pc' = "inverted"
    /\ UNCHANGED <<obj, call1, frames>>

\* ConvFlow(in_channels, filter_channels=4, kernel_size=3, n_layers=1, num_bins=NumBins)
NewConvFlow ==
    /\ pc = "start"
    /\ \E in_channels \in 2..(MaxChannels + 1), ps \in ParamSets :
         obj' = ConvFlow_init(in_channels, 4, 3, 1, NumBins, TailBound, ps)
    /\ pc' = "new"
    /\ UNCHANGED <<call1, call2, frames>>

\* ConvFlow.forward(x, x_mask, g=g)
ConvFlowForward ==
    /\ pc = "new" /\ obj.cls = "ConvFlow"
    /\ \E x \in Tensors(Values("ConvFlow")) : \E x_mask \in MasksFor(x), g \in {None, Cond(4)} :
         call1' = Called(FALSE, x, x_mask, g, ConvFlow_forward(obj, x, x_mask, g, FALSE))
    /\ pc' = "forward"
    /\ UNCHANGED <<obj, call2, frames>>

\* ConvFlow.forward(y, x_mask, reverse=True) on the output y of the forward call
ConvFlowInverse ==
    /\ pc = "forward" /\ obj.cls = "ConvFlow" /\ call1.out.ok
    /\ call2' = Called(TRUE, call1.out.y, call1.x_mask, call1.g, ConvFlow_forward(obj, call1.out.y, call1.x_mask, call1.g, TRUE))
    /\ pc' = "inverted"
    /\ UNCHANGED <<obj, call1, frames>>

NextFlow ==
    \/ NewLog \/ LogForward \/ LogInverse
    \/ NewElementwiseAffine \/ ElementwiseAffineForward \/ ElementwiseAffineInverse
    \/ NewFlip \/ FlipForward \/ FlipInverse
    \/ NewConvFlow \/ ConvFlowForward \/ ConvFlowInverse

SpecFlow == Init /\ [][NextFlow]_vars

(***************************************************************************)
(* Callers of the convolution components                                   *)
(***************************************************************************)
NewDDSConv ==
    /\ pc = "start"
    /\ \E channels \in 1..MaxChannels, kernel_size \in 1..MaxKernel, n_layers \in 0..MaxLayers :
         obj' = DDSConv_init(channels, kernel_size, n_layers, "trained")
    /\ pc' = "new"
    /\ UNCHANGED <<call1, call2, frames>>

DDSConvForward ==
    /\ pc = "new" /\ obj.cls = "DDSConv"
    /\ \E x \in InputsFor(obj.channels) :
       \E x_mask \in OptMasksFor(x), g \in {None, Cond(obj.channels)} :
         call1' = Called(FALSE, x, x_mask, g, Result(DDSConv_forward(obj, x, x_mask, g)))
    /\ pc' = "called"
    /\ UNCHANGED <<obj, call2, frames>>

NewDSResBlock ==
    /\ pc = "start"
    /\ \E channels \in 1..MaxChannels, kernel_size \in 1..MaxKernel :
         obj' = DSResBlock_init(channels, kernel_size, "trained")
    /\ pc' = "new"
    /\ UNCHANGED <<call1, call2, frames>>

DSResBlockForward ==
    /\ pc = "new" /\ obj.cls = "DSResBlock"
    /\ \E x \in InputsFor(obj.dds_conv.channels) : \E x_mask \in OptMasksFor(x) :
         call1' = Called(FALSE, x, x_mask, None, Result(DSResBlock_forward(obj, x, x_mask)))
    /\ pc' = "called"
    /\ UNCHANGED <<obj, call2, frames>>

NewResBlock1 ==
    /\ pc = "start"
    /\ \E channels \in 1..MaxChannels, kernel_size \in 1..MaxKernel :
         obj' = ResBlock1_init(channels, kernel_size, <<1, 3, 5>>, "init")
    /\ pc' = "new"
    /\ UNCHANGED <<call1, call2, frames>>

ResBlock1Forward ==
    /\ pc = "new" /\ obj.cls = "ResBlock1"
    /\ \E x \in InputsFor(obj.convs1[1].in_channels) : \E x_mask \in OptMasksFor(x) :
         call1' = Called(FALSE, x, x_mask, None, Result(ResBlock1_forward(obj, x, x_mask)))
    /\ pc' = "called"
    /\ UNCHANGED <<obj, call2, frames>>

NewConvNorm ==
    /\ pc = "start"
    /\ \E in_channels \in 1..MaxChannels, out_channels \in 1..MaxChannels,
          kernel_size \in 1..MaxKernel, dilation \in {1, 3}, transpose \in BOOLEAN :
         obj' = ConvNorm_init(in_channels, out_channels, kernel_size, dilation,
                              transpose, "trained")
    /\ pc' = IF obj' = Failed THEN "failed" ELSE "new"
    /\ UNCHANGED <<call1, call2, frames>>

ConvNormForward ==
    /\ pc = "new" /\ obj.cls = "ConvNorm"
    /\ \E x \in InputsFor(obj.conv.in_channels) :
         call1' = Called(FALSE, x, None, None, Result(ConvNorm_forward(obj, x)))
    /\ pc' = "called"
    /\ UNCHANGED <<obj, call2, frames>>

NextConv ==
    \/ NewDSResBlock \/ DSResBlockForward
    \/ NewDDSConv \/ DDSConvForward
    \/ NewResBlock1 \/ ResBlock1Forward
    \/ NewConvNorm \/ ConvNormForward

SpecConv == Init /\ [][NextConv]_vars

(***************************************************************************)
(* PositionalEncoding, evaluated by concurrent callers                     *)
(***************************************************************************)
MaxSeqLen == 2

Callers == {1, 2}
Devices == {"cpu", "cuda"}

\* PositionalEncoding.__init__: the table is built on the cpu; row p stands
\* for the sin/cos row of position p.
PositionalEncoding_init(max_len, d_model) ==
    [cls |-> "PositionalEncoding",
     encoding |-> [device |-> "cpu", rows |-> [p \in 1..max_len |-> p - 1]]]

\* tensor.to(device=device)
To(tensor, device) == [device |-> device, rows |-> tensor.rows]

\* tensor[:seq_len, :]
SliceRows(tensor, seq_len) ==
    [device |-> tensor.device,
     rows |-> SubSeq(tensor.rows, 1, IF seq_len < Len(tensor.rows) THEN seq_len
                                     ELSE Len(tensor.rows))]

NoTensor == [device |-> "none", rows |-> <<>>]

Idle == [pc |-> "idle", device |-> "none", seq_len |-> 0, tmp |-> NoTensor, ret |-> NoTensor]

NewPositionalEncoding ==
    /\ pc = "start"
    /\ \E max_len \in 1..(MaxSeqLen + 1) : obj' = PositionalEncoding_init(max_len, 2)
    /\ pc' = "new"
    /\ frames' = [c \in Callers |-> Idle]
    /\ UNCHANGED <<call1, call2>>

\* A caller enters forward(x): batch_size, seq_len = x.size()
PositionalEncodingEnter(c) ==
    /\ obj.cls = "PositionalEncoding" /\ frames[c].pc = "idle"
    /\ \E device \in Devices, seq_len \in 1..MaxSeqLen :
         frames' = [frames EXCEPT ![c] = [@ EXCEPT !.pc = "to", !.device = device,
                                                   !.seq_len = seq_len]]
    /\ UNCHANGED <<obj, pc, call1, call2>>

\* the right-hand side of self.encoding = self.encoding.to(device=x.device)
PositionalEncodingTo(c) ==
    /\ obj.cls = "PositionalEncoding" /\ frames[c].pc = "to"
    /\ frames' = [frames EXCEPT ![c] = [@ EXCEPT !.pc = "store",
                                                 !.tmp = To(obj.encoding, frames[c].device)]]
    /\ UNCHANGED <<obj, pc, call1, call2>>

\* the assignment to the attribute self.encoding
PositionalEncodingStore(c) ==
    /\ obj.cls = "PositionalEncoding" /\ frames[c].pc = "store"
    /\ obj' = [obj EXCEPT !.encoding = frames[c].tmp]
    /\ frames' = [frames EXCEPT ![c] = [@ EXCEPT !.pc = "slice"]]
    /\ UNCHANGED <<pc, call1, call2>>

\* return self.encoding[:seq_len, :]
PositionalEncodingReturn(c) ==
    /\ obj.cls = "PositionalEncoding" /\ frames[c].pc = "slice"
    /\ frames' = [frames EXCEPT ![c] = [@ EXCEPT !.pc = "done",
                                                 !.ret = SliceRows(obj.encoding, frames[c].seq_len)]]
    /\ UNCHANGED <<obj, pc, call1, call2>>

NextPE ==
    \/ NewPositionalEncoding
    \/ \E c \in Callers : PositionalEncodingEnter(c)
    \/ \E c \in Callers : PositionalEncodingTo(c)
    \/ \E c \in Callers : PositionalEncodingStore(c)
    \/ \E c \in Callers : PositionalEncodingReturn(c)

SpecPE == Init /\ [][NextPE]_vars

(***************************************************************************)
(* Properties of the invertible transforms, over SpecFlow.                 *)
(***************************************************************************)
\* Tolerance of "returns x": 1e-4
Tol == R(1, 10000)

\* x_mask[b, 0, t] read through broadcasting
MaskAt(m, b, t) ==
    m[IF Len(m) = 1 THEN 1 ELSE b][1][IF Len(m[1][1]) = 1 THEN 1 ELSE t]

\* The mask can be broadcast to x's [batch, 1, time] shape.
MaskFits(x, m) == Len(m) \in {1, Len(x)} /\ Len(m[1][1]) \in {1, Len(x[1][1])}

\* x is a valid input of the constructed transform: it has the channel
\* count the transform was built for, and no negative element where the
\* transform takes the logarithm.
InputValid(x) ==
    CASE obj.cls = "ElementwiseAffine" -> Len(x[1]) = obj.channels
      [] obj.cls = "ConvFlow" -> Len(x[1]) = obj.in_channels
      [] obj.cls = "Log" ->
           \A b \in 1..Len(x) : \A c \in 1..Len(x[b]) : \A t \in 1..Len(x[b][c]) :
             ~RatLt(x[b][c][t], Zero)
      [] OTHER -> TRUE

\* A forward call and the inverse call on its output have both returned,
\* for a valid input and a mask that broadcasts to x's shape.
RoundTripDone ==
    /\ pc = "inverted" /\ call2.out.ok
    /\ MaskFits(call1.x, call1.x_mask) /\ InputValid(call1.x)

\* C1 as written: for every transform and every valid input and mask, the
\* inverse direction applied to the forward output returns x within
\* tolerance, at every position.
C1_RoundTripEverywhere ==
    RoundTripDone =>
        /\ Shape(call2.out.y) = Shape(call1.x)
        /\ \A b \in 1..Len(call1.x) : \A c \in 1..Len(call1.x[b]) :
             \A t \in 1..Len(call1.x[b][c]) :
               Close(call2.out.y[b][c][t], call1.x[b][c][t], Tol)

\* C1, amended: for every transform and every valid input and mask, the
\* inverse direction applied to the forward output returns x within
\* tolerance at every position where the mask is 1 (positions where the
\* mask is 0 are not recovered).
C1_RoundTripUnmasked ==
    RoundTripDone =>
        /\ Shape(call2.out.y) = Shape(call1.x)
        /\ \A b \in 1..Len(call1.x) : \A c \in 1..Len(call1.x[b]) :
             \A t \in 1..Len(call1.x[b][c]) :
               MaskAt(call1.x_mask, b, t) = One =>
                 Close(call2.out.y[b][c][t], call1.x[b][c][t], Tol)

\* A ConvFlow round trip under a mask with padded and unpadded steps, whose
\* forward call moved an unpadded value.
C1_Witness ==
    /\ RoundTripDone /\ obj.cls = "ConvFlow"
    /\ \E b \in 1..Len(call1.x) : \E t \in 1..Len(call1.x[b][1]) :
         MaskAt(call1.x_mask, b, t) = Zero
    /\ \E b \in 1..Len(call1.x) : \E c \in 1..Len(call1.x[b]) :
         \E t \in 1..Len(call1.x[b][c]) :
           /\ MaskAt(call1.x_mask, b, t) = One
           /\ call1.out.y[b][c][t] # call1.x[b][c][t]

\* C2: Flip applied twice, in either direction, returns x exactly, and the
\* forward direction returns a zero logdet with one entry per batch example.
C2_FlipSelfInverse ==
    (obj.cls = "Flip" /\ pc \in {"forward", "inverted"}) =>
        /\ call1.out.ok
        /\ Len(call1.out.logdet) = Len(call1.x)
        /\ \A b \in 1..Len(call1.x) : call1.out.logdet[b] = Zero
        /\ \A r1, r2 \in BOOLEAN :
             Flip_forward(Flip_forward(call1.x, call1.x_mask, r1).y, call1.x_mask, r2).y
               = call1.x
        /\ pc = "inverted" => (call2.out.ok /\ call2.out.y = call1.x)

\* Flip went forward and back over a batch of two examples whose channels
\* differ.
C2_Witness ==
    /\ obj.cls = "Flip" /\ pc = "inverted"
    /\ Len(call1.x) = 2
    /\ Len(call1.x[1]) >= 2
    /\ call1.x[1][1] # call1.x[1][Len(call1.x[1])]

\* n * a for a logarithm a and a natural number n
LnTimes(a, n) ==
    IF a = Zero \/ n = 0 THEN Zero
    ELSE LnOf([i \in 1..Len(Primes) |-> n * a.e[i]])

\* The number of steps of example b the mask keeps
Kept(m, b) == Cardinality({t \in 1..Len(m[b][1]) : m[b][1][t] = One})

\* C3: the forward logdet of ElementwiseAffine is, per batch example, the
\* sum of logs[c] * mask[b, t] over channels and time: the sum of the
\* logs times the number of steps the mask keeps, whatever x is.
C3_AffineLogdet ==
    (obj.cls = "ElementwiseAffine" /\ pc \in {"forward", "inverted"} /\ call1.out.ok) =>
        /\ Len(call1.out.logdet) = Len(call1.x_mask)
        /\ \A b \in 1..Len(call1.x_mask) :
             call1.out.logdet[b] =
               LnTimes(SumSeq([c \in 1..obj.channels |-> obj.logs[1][c][1]]),
                       Kept(call1.x_mask, b))

\* A trained two-channel ElementwiseAffine went forward over two examples,
\* one with a padded step, and the logdets differ.
C3_Witness ==
    /\ obj.cls = "ElementwiseAffine" /\ pc = "forward" /\ call1.out.ok
    /\ obj.channels = 2 /\ obj.logs[1][1][1] # Zero
    /\ Len(call1.x_mask) = 2
    /\ Kept(call1.x_mask, 1) # Kept(call1.x_mask, 2)
    /\ call1.out.logdet[1] # call1.out.logdet[2]

\* C4: ConvFlow, in either direction, returns the first half of the
\* channels unchanged at every position where the mask is 1.
C4_FirstHalfUnchanged ==
    (obj.cls = "ConvFlow") =>
        /\ (pc \in {"forward", "inverted"} /\ call1.out.ok) =>
             \A b \in 1..Len(call1.x) : \A c \in 1..obj.half_channels :
               \A t \in 1..Len(call1.x[b][c]) :
                 MaskAt(call1.x_mask, b, t) = One =>
                   call1.out.y[b][c][t] = call1.x[b][c][t]
        /\ (pc = "inverted" /\ call2.out.ok) =>
             \A b \in 1..Len(call2.x) : \A c \in 1..obj.half_channels :
               \A t \in 1..Len(call2.x[b][c]) :
                 MaskAt(call2.x_mask, b, t) = One =>
                   call2.out.y[b][c][t] = call2.x[b][c][t]

\* A trained ConvFlow went forward and back, and the forward call moved a
\* value of the second half at a step the mask keeps.
C4_Witness ==
    /\ obj.cls = "ConvFlow" /\ pc = "inverted" /\ call2.out.ok
    /\ \E b \in 1..Len(call1.x) : \E t \in 1..Len(call1.x[b][1]) :
         /\ MaskAt(call1.x_mask, b, t) = One
         /\ call1.out.y[b][obj.half_channels + 1][t] # call1.x[b][obj.half_channels + 1][t]
         /\ call1.out.y[b][1][t] # call1.out.y[b][obj.half_channels + 1][t]

\* C5: ConvFlow given an input with an odd number of channels fails at the
\* split, before the convolutions or the spline run.
C5_OddChannelsFail ==
    (obj.cls = "ConvFlow" /\ pc \in {"forward", "inverted"} /\ Len(call1.x[1]) % 2 = 1) =>
        (~call1.out.ok /\ call1.out.at = "split")

\* A ConvFlow built for three channels was called with three channels.
C5_Witness ==
    /\ obj.cls = "ConvFlow" /\ pc = "forward"
    /\ obj.in_channels = 3 /\ Len(call1.x[1]) = 3
    /\ ~call1.out.ok

\* C7 as written: every transform given a mask that cannot be broadcast to
\* x's batch and time shape fails at once, with no result.
C7_BadMaskFails ==
    (pc \in {"forward", "inverted"} /\ ~MaskFits(call1.x, call1.x_mask)) =>
        ~call1.out.ok

(***************************************************************************)
(* Properties of the convolution components, over SpecConv.                *)
(***************************************************************************)
\* C6 as written: no DDSConv holding a depthwise convolution with an even
\* kernel_size, and no ConvNorm with an even kernel_size and padding=None,
\* gets constructed.
C6_EvenKernelRejected ==
    /\ obj.cls = "DDSConv" =>
         \A i \in 1..Len(obj.convs_sep) : obj.convs_sep[i].kernel_size % 2 = 1
    /\ obj.cls = "ConvNorm" => obj.conv.kernel_size % 2 = 1

\* The call has a mask of x's shape or none, and x has the channel count
\* the DDSConv was built for.
DDSConvCallFits ==
    /\ Len(call1.x[1]) = obj.channels
    /\ call1.x_mask = None \/ MaskFits(call1.x, call1.x_mask)

\* C9: a DDSConv with odd kernel_size k gives layer i (0-based) dilation
\* k^i (1 for the first layer, k times the previous one after it) and
\* padding dilation*(k-1)/2, so each depthwise convolution returns the
\* length it is given and the stack returns x's shape; k = 3 with two
\* layers has dilations 1, 3 and paddings 1, 3.
C9_ShapePreserved ==
    (obj.cls = "DDSConv" /\ obj.kernel_size % 2 = 1) =>
        /\ \A i \in 1..obj.n_layers :
             /\ obj.convs_sep[i].dilation =
                  (IF i = 1 THEN 1 ELSE obj.kernel_size * obj.convs_sep[i - 1].dilation)
             /\ 2 * obj.convs_sep[i].padding =
                  obj.convs_sep[i].dilation * (obj.kernel_size - 1)
             /\ \A T \in 1..MaxElems : ConvOutLen(obj.convs_sep[i], T) = T
        /\ (obj.kernel_size = 3 /\ obj.n_layers = 2) =>
             /\ <<obj.convs_sep[1].dilation, obj.convs_sep[2].dilation>> = <<1, 3>>
             /\ <<obj.convs_sep[1].padding, obj.convs_sep[2].padding>> = <<1, 3>>
        /\ (pc = "called" /\ DDSConvCallFits) =>
             (call1.out.ok /\ Shape(call1.out.y) = Shape(call1.x))

\* A DDSConv with kernel_size 3 and two layers returned from a call on an
\* input of at least three steps.
C9_Witness ==
    /\ obj.cls = "DDSConv" /\ pc = "called"
    /\ obj.kernel_size = 3 /\ obj.n_layers = 2
    /\ DDSConvCallFits /\ call1.out.ok
    /\ Len(call1.x[1][1]) >= 3

\* C10 as written: every component given a mask returns exactly zero at
\* every position where the mask is 0.
C10_PaddedZero ==
    (/\ pc = "called" /\ call1.x_mask # None /\ call1.out.ok
     /\ MaskFits(call1.x, call1.x_mask)
     /\ Shape(call1.out.y) = Shape(call1.x)) =>
        \A b \in 1..Len(call1.x) : \A c \in 1..Len(call1.x[b]) :
          \A t \in 1..Len(call1.x[b][c]) :
            MaskAt(call1.x_mask, b, t) = Zero => call1.out.y[b][c][t] = Zero

(***************************************************************************)
(* Properties of concurrent evaluation, over SpecPE.                       *)
(***************************************************************************)
\* What forward(x) returns when no other call runs: the first seq_len rows
\* of the table, on x's device.
AloneResult(max_len, device, seq_len) ==
    SliceRows(To(PositionalEncoding_init(max_len, 2).encoding, device), seq_len)

\* C8 as written: evaluation writes no state that calls share, so each of
\* two concurrent callers gets the result it would get running alone.
C8_SameResultAsAlone ==
    \A c \in DOMAIN frames :
        frames[c].pc = "done" =>
            frames[c].ret = AloneResult(Len(obj.encoding.rows), frames[c].device,
                                        frames[c].seq_len)

====
